---- MODULE Spec2Model ----
(***************************************************************************)
(* Round-based market-clearing pipeline of simulador_ver001                *)
(* (src/testes_completos/teste_0_0_3.py): Ordem, OrderBook, Transacao,     *)
(* Mercado and the round driver main().                                    *)
(*                                                                         *)
(* Money is exact: every price and every cash amount is held as twice its  *)
(* value, so that a limit price of k is the even number 2*k and the        *)
(* midpoint (b + s) / 2 of two limit prices is again a whole number.       *)
(***************************************************************************)
EXTENDS Integers, Sequences, FiniteSets, TLC

\* ------------------------------------------------------------------ bounds
MaxOrdens == 3      \* orders accepted by adicionar_ordem in one behaviour
MaxOrdensLivro == 4 \* the same, when a single instrument is traded
MaxPreco == 2       \* largest limit price an order is drawn with
MaxPrecoLivro == 3  \* the same, when a single instrument is traded
MaxQtd == 2         \* largest quantity an order is submitted with
MaxRodadas == 2     \* rounds of main() that are explored
MaxCarteira == 1    \* largest holding of a stock an agent starts with
SaldoInicial == 4   \* the cash an agent starts with (twice its value)
MaxSaldoGerar == 6  \* largest cash gerar_ordem is applied to (twice its value)
MaxPosse == 2       \* largest holding gerar_ordem is applied to
MaxVolatilidade == 2 \* largest volatilidade_percebida gerar_ordem is applied to
MaxRisco == 4       \* largest risco_desejado gerar_ordem is applied to
MaxRodadasLongo == 4 \* rounds of main() explored over the longer horizon
MaxPrecoLongo == 4  \* the higher of the two limit prices drawn there
SaldoLongo == 8     \* the cash an agent starts with there (twice its value)

\* ------------------------------------------------------------ the universe
Agentes == {"A1", "A2"}
Acoes == {"PETR4"}
Fundos == {"FII_A"}
Instrumentos == Acoes \cup Fundos
\* dict iteration order of mercado.ativos / mercado.fundos_imobiliarios
OrdemInstrumentos == <<"PETR4", "FII_A">>

Nenhum == "nenhum"

VARIABLES
    saldo,          \* Agente.saldo, per agent (twice the value)
    carteira,       \* Agente.carteira, per agent: a dict instrument -> units
    mercado_ativos, \* Mercado.ativos: a dict instrument -> price
    preco_cota,     \* FundoImobiliario.preco_cota, per fund
    ordens_compra,  \* OrderBook.ordens_compra: a dict instrument -> list
    ordens_venda,   \* OrderBook.ordens_venda: a dict instrument -> list
    patrimonio,     \* Agente.patrimonio, per agent: the list of valuations
    em_execucao,    \* instruments whose executar_ordens pass is in its loop
    fase,           \* position of main(): "api" when the book is driven directly
    rodada,         \* main(): the loop variable rodada
    cursor,         \* main(): the agent, the loop and the index main() is at
    prox_id,        \* number of orders accepted so far (an order's arrival time)
    aceitas,        \* every order as it was accepted, and what was executed of it
    referencia,     \* per instrument: its last execution price, else its
                    \* opening price
    op,             \* the operation that acted last
    trans,          \* the transactions of the pass that ran last
    antes           \* the state in which that pass was called

vars == <<saldo, carteira, mercado_ativos, preco_cota, ordens_compra,
          ordens_venda, patrimonio, em_execucao, fase, rodada, cursor,
          prox_id, aceitas, referencia, op, trans, antes>>

\* ------------------------------------------------------------------ dicts
\* d.get(k, 0)
Get(d, k) == IF k \in DOMAIN d THEN d[k] ELSE 0

\* d[k] = v
Put(d, k, v) == [x \in DOMAIN d \cup {k} |-> IF x = k THEN v ELSE d[x]]

\* del d[k]
Del(d, k) == [x \in DOMAIN d \ {k} |-> d[x]]

\* the order put at the head of the list instead of its tail
Prepend1(d, k, o) == Put(d, k, <<o>> \o (IF k \in DOMAIN d THEN d[k] ELSE <<>>))

\* d.setdefault(k, []).append(o)
Append1(d, k, o) == Put(d, k, Append(IF k \in DOMAIN d THEN d[k] ELSE <<>>, o))

Min(a, b) == IF a <= b THEN a ELSE b

\* int(x / y) for y > 0: Python truncates towards zero
IntDiv(x, y) == IF x >= 0 THEN x \div y ELSE 0 - ((0 - x) \div y)

RECURSIVE SumOver(_, _)
SumOver(S, f) ==
    IF S = {} THEN 0
    ELSE LET x == CHOOSE y \in S : TRUE IN f[x] + SumOver(S \ {x}, f)

\* ------------------------------------------------------------------ Ordem
\* Ordem(tipo, agente, ativo, preco_limite, quantidade); id is the object's
\* identity: its rank among the orders the book accepted (its arrival time).
Ordem(id, tipo, agente, ativo, preco_limite, quantidade) ==
    [id |-> id, tipo |-> tipo, agente |-> agente, ativo |-> ativo,
     preco_limite |-> preco_limite, quantidade |-> quantidade]

\* ------------------------------------------------------------- list.sort
\* list.sort is stable: x goes behind every element that does not sort
\* strictly after it.
RECURSIVE InsereAsc(_, _)
InsereAsc(s, x) ==
    IF s = <<>> THEN <<x>>
    ELSE IF Head(s).preco_limite <= x.preco_limite
         THEN <<Head(s)>> \o InsereAsc(Tail(s), x)
         ELSE <<x>> \o s

RECURSIVE InsereDesc(_, _)
InsereDesc(s, x) ==
    IF s = <<>> THEN <<x>>
    ELSE IF Head(s).preco_limite >= x.preco_limite
         THEN <<Head(s)>> \o InsereDesc(Tail(s), x)
         ELSE <<x>> \o s

RECURSIVE SortAscDe(_, _)
SortAscDe(feito, resto) ==
    IF resto = <<>> THEN feito
    ELSE SortAscDe(InsereAsc(feito, Head(resto)), Tail(resto))

RECURSIVE SortDescDe(_, _)
SortDescDe(feito, resto) ==
    IF resto = <<>> THEN feito
    ELSE SortDescDe(InsereDesc(feito, Head(resto)), Tail(resto))

RECURSIVE Inverte(_)
Inverte(s) == IF s = <<>> THEN <<>> ELSE Append(Inverte(Tail(s)), Head(s))

\* a sort by ascending price followed by list.reverse(): equal prices end up
\* latest first
SortCompraInstavel(s) == Inverte(SortAscDe(<<>>, s))

\* no sort at all: the list stays in arrival order
SemSort(s) == s

\* ordens_compra[ativo].sort(key=lambda x: x.preco_limite, reverse=True)
SortCompra(s) == SortDescDe(<<>>, s)

\* a sort by descending price followed by list.reverse()
SortVendaInstavel(s) == Inverte(SortDescDe(<<>>, s))

\* ordens_venda[ativo].sort(key=lambda x: x.preco_limite)
SortVenda(s) == SortAscDe(<<>>, s)

\* ------------------------------------------------------ Transacao.executar
\* a seller credited with one unit of money less than the buyer paid
SaldoAposTaxa(s, comprador, vendedor, valor_total) ==
    LET s1 == [s EXCEPT ![comprador] = @ - valor_total]
    IN  [s1 EXCEPT ![vendedor] = @ + valor_total - 1]

\* a buyer whose cash is not let below zero
SaldoAposPiso(s, comprador, vendedor, valor_total) ==
    LET s1 == [s EXCEPT ![comprador] =
                   IF @ - valor_total < 0 THEN 0 ELSE @ - valor_total]
    IN  [s1 EXCEPT ![vendedor] = @ + valor_total]

\* comprador.saldo -= valor_total; vendedor.saldo += valor_total
SaldoApos(s, comprador, vendedor, valor_total) ==
    LET s1 == [s EXCEPT ![comprador] = @ - valor_total]
    IN  [s1 EXCEPT ![vendedor] = @ + valor_total]

\* the buyer credited under every instrument it holds, not only the traded one
CarteiraAposTodos(c, comprador, vendedor, ativo, quantidade) ==
    [c EXCEPT ![comprador] =
         [x \in DOMAIN @ \cup {ativo} |-> Get(@, x) + quantidade]]

\* the two carteira updates, in the order the code makes them
CarteiraApos(c, comprador, vendedor, ativo, quantidade) ==
    LET c1 == [c EXCEPT ![comprador] =
                   Put(@, ativo, Get(@, ativo) + quantidade)]
    IN  IF ativo \in DOMAIN c1[vendedor]
        THEN LET c2 == [c1 EXCEPT ![vendedor] =
                            Put(@, ativo, @[ativo] - quantidade)]
             IN  IF c2[vendedor][ativo] = 0
                 THEN [c2 EXCEPT ![vendedor] = Del(@, ativo)]
                 ELSE c2
        ELSE c1

\* ------------------------------------------------- OrderBook.executar_ordens
\* a crossing test that lets every pair trade
CruzaSempre(ordem_compra, ordem_venda) == TRUE

\* a crossing test that leaves equal limit prices unmatched
CruzaEstrito(ordem_compra, ordem_venda) ==
    ordem_compra.preco_limite > ordem_venda.preco_limite

\* ordem_compra.preco_limite >= ordem_venda.preco_limite
Cruza(ordem_compra, ordem_venda) ==
    ordem_compra.preco_limite >= ordem_venda.preco_limite

\* the buyer's limit taken as the execution price
PrecoDoComprador(ordem_compra, ordem_venda) == ordem_compra.preco_limite

\* (ordem_compra.preco_limite + ordem_venda.preco_limite) / 2
PrecoExecucao(ordem_compra, ordem_venda) ==
    (ordem_compra.preco_limite + ordem_venda.preco_limite) \div 2

\* the quantity of the buy order, whatever the sell order offers
QuantidadeDaCompra(ordem_compra, ordem_venda) == ordem_compra.quantidade

\* the larger of the two quantities
QuantidadeMaior(ordem_compra, ordem_venda) ==
    IF ordem_compra.quantidade >= ordem_venda.quantidade
    THEN ordem_compra.quantidade ELSE ordem_venda.quantidade

\* min(ordem_compra.quantidade, ordem_venda.quantidade)
QuantidadeExec(ordem_compra, ordem_venda) ==
    Min(ordem_compra.quantidade, ordem_venda.quantidade)

\* order.quantidade -= quantidade_exec on the head of a list, which is never
\* popped
FilaSemPop(fila, quantidade_exec) ==
    <<[Head(fila) EXCEPT !.quantidade = @ - quantidade_exec]>> \o Tail(fila)

\* order.quantidade -= quantidade_exec on the head of a list, then pop(0)
\* when it reached 0
FilaApos(fila, quantidade_exec) ==
    LET q == Head(fila).quantidade - quantidade_exec
    IN  IF q = 0 THEN Tail(fila)
        ELSE <<[Head(fila) EXCEPT !.quantidade = q]>> \o Tail(fila)

\* the guard of executar_ordens
TemChaves(ativo) == ativo \in DOMAIN ordens_compra /\ ativo \in DOMAIN ordens_venda

\* the while condition
AmbosNaoVazios(ativo) == ordens_compra[ativo] # <<>> /\ ordens_venda[ativo] # <<>>

\* the record kept of a Transacao, of the two orders it was built from, and
\* of the two lists and the agents as they were when it was built
Registro(ordem_compra, ordem_venda, ativo, quantidade, preco_execucao) ==
    [comprador |-> ordem_compra.agente, vendedor |-> ordem_venda.agente,
     ativo |-> ativo, quantidade |-> quantidade,
     preco_execucao |-> preco_execucao,
     compra |-> ordem_compra, venda |-> ordem_venda,
     fila_compra |-> ordens_compra[ativo], fila_venda |-> ordens_venda[ativo],
     saldo_antes |-> saldo, carteira_antes |-> carteira]

Foto ==
    [saldo |-> saldo, carteira |-> carteira, mercado_ativos |-> mercado_ativos,
     preco_cota |-> preco_cota, ordens_compra |-> ordens_compra,
     ordens_venda |-> ordens_venda]

\* adicionar_ordem with an else in place of the elif: every order that is
\* not a compra goes to the sell list
AdicionaSemElif(ordem) ==
    /\ ordens_compra' = IF ordem.tipo = "compra"
                        THEN Append1(ordens_compra, ordem.ativo, ordem)
                        ELSE ordens_compra
    /\ ordens_venda' = IF ordem.tipo = "compra"
                       THEN ordens_venda
                       ELSE Append1(ordens_venda, ordem.ativo, ordem)
    /\ prox_id' = prox_id + 1
    /\ aceitas' = Append(aceitas, [ordem |-> ordem, preenchido |-> 0,
                                   rodada |-> rodada])

\* adicionar_ordem(ordem)
Adiciona(ordem) ==
    /\ ordens_compra' = IF ordem.tipo = "compra"
                        THEN Append1(ordens_compra, ordem.ativo, ordem)
                        ELSE ordens_compra
    /\ ordens_venda' = IF ordem.tipo = "venda"
                       THEN Append1(ordens_venda, ordem.ativo, ordem)
                       ELSE ordens_venda
    /\ prox_id' = IF ordem.tipo \in {"compra", "venda"} THEN prox_id + 1
                  ELSE prox_id
    /\ aceitas' = IF ordem.tipo \in {"compra", "venda"}
                  THEN Append(aceitas, [ordem |-> ordem, preenchido |-> 0,
                                        rodada |-> rodada])
                  ELSE aceitas

\* executar_ordens(ativo, mercado) up to the first test of the while
\* condition: the guard and the two sorts
Comeca(ativo) ==
    /\ trans' = <<>>
    /\ antes' = Foto
    /\ op' = [nome |-> "executar_ordens", ativo |-> ativo,
              repetida |-> (op.nome = "executar_ordens" /\ op.ativo = ativo)]
    /\ IF TemChaves(ativo)
       THEN /\ ordens_compra' =
                   [ordens_compra EXCEPT ![ativo] = SortCompra(@)]
            /\ ordens_venda' = [ordens_venda EXCEPT ![ativo] = SortVenda(@)]
            /\ em_execucao' = em_execucao \cup {ativo}
       ELSE UNCHANGED <<ordens_compra, ordens_venda, em_execucao>>
    /\ UNCHANGED <<saldo, carteira, mercado_ativos, preco_cota, patrimonio,
                   prox_id, aceitas, referencia>>

\* one iteration of the while loop that reaches transacao.executar()
Negocia(ativo) ==
    /\ ativo \in em_execucao
    /\ AmbosNaoVazios(ativo)
    /\ LET ordem_compra == ordens_compra[ativo][1]
           ordem_venda == ordens_venda[ativo][1]
           preco_execucao == PrecoExecucao(ordem_compra, ordem_venda)
           quantidade_exec == QuantidadeExec(ordem_compra, ordem_venda)
           valor_total == quantidade_exec * preco_execucao
       IN  /\ Cruza(ordem_compra, ordem_venda)
           /\ saldo' = SaldoApos(saldo, ordem_compra.agente,
                                 ordem_venda.agente, valor_total)
           /\ carteira' = CarteiraApos(carteira, ordem_compra.agente,
                                       ordem_venda.agente, ativo,
                                       quantidade_exec)
           /\ mercado_ativos' = Put(mercado_ativos, ativo, preco_execucao)
           /\ ordens_compra' = [ordens_compra EXCEPT ![ativo] =
                                    FilaApos(@, quantidade_exec)]
           /\ ordens_venda' = [ordens_venda EXCEPT ![ativo] =
                                   FilaApos(@, quantidade_exec)]
           /\ trans' = Append(trans, Registro(ordem_compra, ordem_venda, ativo,
                                              quantidade_exec, preco_execucao))
           /\ aceitas' = [aceitas EXCEPT
                              ![ordem_compra.id].preenchido = @ + quantidade_exec,
                              ![ordem_venda.id].preenchido = @ + quantidade_exec]
           /\ referencia' = [referencia EXCEPT ![ativo] = preco_execucao]
    /\ UNCHANGED <<preco_cota, patrimonio, em_execucao, prox_id, op, antes>>

\* the loop ends: a list is empty, or the heads do not cross (break)
Termina(ativo) ==
    /\ ativo \in em_execucao
    /\ IF AmbosNaoVazios(ativo)
       THEN ~Cruza(ordens_compra[ativo][1], ordens_venda[ativo][1])
       ELSE TRUE
    /\ em_execucao' = em_execucao \ {ativo}
    /\ UNCHANGED <<saldo, carteira, mercado_ativos, preco_cota, ordens_compra,
                   ordens_venda, patrimonio, prox_id, aceitas, referencia, op,
                   trans, antes>>

\* ------------------------------------------------------------ initial state
Inicio == [agente |-> 1, laco |-> 1, idx |-> 1]

\* main(): Mercado(ativos={...}, fundos_imobiliarios={...}), OrderBook() and
\* the agents, each with cash and a holding of every stock and of no fund
InitComum ==
    /\ saldo = [a \in Agentes |-> SaldoInicial]
    /\ carteira = [a \in Agentes |-> [x \in Acoes |-> MaxCarteira]]
    /\ mercado_ativos = [x \in Acoes |-> 2]
    /\ preco_cota = [f \in Fundos |-> 4]
    /\ ordens_compra = <<>>
    /\ ordens_venda = <<>>
    /\ em_execucao = {}
    /\ rodada = 0
    /\ cursor = Inicio
    /\ patrimonio = [a \in Agentes |-> <<>>]
    /\ prox_id = 0
    /\ aceitas = <<>>
    /\ referencia = [x \in Instrumentos |-> IF x \in Acoes THEN 2 ELSE 4]
    /\ op = [nome |-> "init", ativo |-> Nenhum]
    /\ trans = <<>>
    /\ antes = Nenhum

Init == InitComum /\ fase = "api"

\* ------------------------------------------- the order book driven directly
Tipos == {"compra", "venda", "outro"}
PrecosAPI == {2 * k : k \in 1..MaxPreco}
QuantidadesAPI == {0 - 1, 0} \cup 1..MaxQtd

\* order_book.adicionar_ordem(Ordem(tipo, agente, ativo, preco, quantidade))
AdicionarOrdem ==
    /\ fase = "api"
    /\ em_execucao = {}
    /\ prox_id < MaxOrdens
    /\ \E tipo \in Tipos, agente \in Agentes, ativo \in Instrumentos,
          preco \in PrecosAPI, quantidade \in QuantidadesAPI :
          /\ Adiciona(Ordem(prox_id + 1, tipo, agente, ativo, preco, quantidade))
          /\ op' = [nome |-> "adicionar_ordem", ativo |-> ativo, tipo |-> tipo,
                    preco_limite |-> preco, quantidade |-> quantidade]
    /\ trans' = <<>>
    /\ antes' = Foto
    /\ UNCHANGED <<saldo, carteira, mercado_ativos, preco_cota, patrimonio,
                   em_execucao, fase, rodada, cursor, referencia>>

\* order_book.executar_ordens(ativo, mercado) is called
ExecutarOrdens ==
    /\ fase \in {"api", "livro"}
    /\ em_execucao = {}
    /\ \E ativo \in IF fase = "api" THEN Instrumentos ELSE Acoes : Comeca(ativo)
    /\ UNCHANGED <<fase, rodada, cursor>>

\* the loop of the pass in progress makes its next iteration
Iteracao ==
    /\ \E ativo \in em_execucao : Negocia(ativo)
    /\ UNCHANGED <<fase, rodada, cursor>>

\* the loop of the pass in progress ends
Retorno ==
    /\ fase \in {"api", "livro"}
    /\ \E ativo \in em_execucao : Termina(ativo)
    /\ UNCHANGED <<fase, rodada, cursor>>

Next == AdicionarOrdem \/ ExecutarOrdens \/ Iteracao \/ Retorno

Spec == Init /\ [][Next]_vars

\* ------------------------------------- the order book of a single instrument
InitLivro == InitComum /\ fase = "livro"

PrecosLivro == {2 * k : k \in 1..MaxPrecoLivro}

\* order_book.adicionar_ordem(ordem) with a well-formed order of a stock
AdicionarOrdemLivro ==
    /\ fase = "livro"
    /\ em_execucao = {}
    /\ prox_id < MaxOrdensLivro
    /\ \E tipo \in {"compra", "venda"}, agente \in Agentes, ativo \in Acoes,
          preco \in PrecosLivro, quantidade \in 1..MaxQtd :
          /\ Adiciona(Ordem(prox_id + 1, tipo, agente, ativo, preco, quantidade))
          /\ op' = [nome |-> "adicionar_ordem", ativo |-> ativo, tipo |-> tipo,
                    preco_limite |-> preco, quantidade |-> quantidade]
    /\ trans' = <<>>
    /\ antes' = Foto
    /\ UNCHANGED <<saldo, carteira, mercado_ativos, preco_cota, patrimonio,
                   em_execucao, fase, rodada, cursor, referencia>>

NextLivro == AdicionarOrdemLivro \/ ExecutarOrdens \/ Iteracao \/ Retorno

SpecLivro == InitLivro /\ [][NextLivro]_vars

\* ------------------------------------------------------------------ main()
OrdemAgentes == <<"A1", "A2">>
OrdemFundos == <<"FII_A">>

\* mercado.ativos.keys(), in the dict's order
ChavesAtivos == SelectSeq(OrdemInstrumentos, LAMBDA x : x \in DOMAIN mercado_ativos)

\* the list a loop of main() runs over: mercado.ativos first, then
\* mercado.fundos_imobiliarios
Laco(l) == IF l = 1 THEN ChavesAtivos ELSE OrdemFundos

AtivoDoCursor == Laco(cursor.laco)[cursor.idx]

\* the price handed to gerar_ordem: mercado.ativos[ativo] in the first loop,
\* fii.preco_cota in the second
PrecoLido(l, ativo) == IF l = 1 THEN mercado_ativos[ativo] ELSE preco_cota[ativo]

\* (1 + taxa_inflacao_diaria), the factor aplicar_inflacao multiplies by
FatoresInflacao == {2}

\* preco_expectativa: the adjusted price moved by random.gauss(0, ruido)
PrecosMain == {2 * k : k \in 1..MaxPreco}

\* max(1, int(calcular_quantidade_baseada_em_risco(risco_desejado))):
\* volatilidade_percebida is 0.0 whenever gerar_ordem runs, as nothing on the
\* path of main() calls calcular_volatilidade_percebida
QuantidadeRisco == 1

Max(a, b) == IF a >= b THEN a ELSE b

\* max(1, int(self.calcular_quantidade_baseada_em_risco(risco_desejado)))
QuantidadeDeRisco(volatilidade_percebida, risco_desejado) ==
    Max(1, IF volatilidade_percebida > 0
           THEN IntDiv(risco_desejado, volatilidade_percebida)
           ELSE 0)

\* a compra sized by risk alone, whatever the cash
QuantidadeCompraSemSaldo(saldo_agente, preco_expectativa, quantidade_risco) ==
    quantidade_risco

\* gerar_ordem, the quantity of a compra
QuantidadeCompraDe(saldo_agente, preco_expectativa, quantidade_risco) ==
    Min(IntDiv(saldo_agente, preco_expectativa), quantidade_risco)

\* a venda sized by risk alone, whatever the holding
QuantidadeVendaSemPosse(carteira_agente, ativo, quantidade_risco) ==
    quantidade_risco

\* gerar_ordem, the quantity of a venda
QuantidadeVendaDe(carteira_agente, ativo, quantidade_risco) ==
    Min(Get(carteira_agente, ativo), quantidade_risco)

\* the same two quantities on the path of main()
QuantidadeCompra(saldo_agente, preco_expectativa) ==
    QuantidadeCompraDe(saldo_agente, preco_expectativa, QuantidadeRisco)

QuantidadeVenda(carteira_agente, ativo) ==
    QuantidadeVendaDe(carteira_agente, ativo, QuantidadeRisco)

\* gerar_ordem(ativo, preco_mercado): sentimento > 0 and preco_expectativa
\* are what atualiza_sentimento and random.gauss left
GerarOrdemDe(id, agente, ativo, sentimento_positivo, preco_expectativa, quantidade_risco) ==
    IF sentimento_positivo
    THEN Ordem(id, "compra", agente, ativo, preco_expectativa,
               QuantidadeCompraDe(saldo[agente], preco_expectativa,
                                  quantidade_risco))
    ELSE Ordem(id, "venda", agente, ativo, preco_expectativa,
               QuantidadeVendaDe(carteira[agente], ativo, quantidade_risco))

GerarOrdem(id, agente, ativo, sentimento_positivo, preco_expectativa) ==
    GerarOrdemDe(id, agente, ativo, sentimento_positivo, preco_expectativa,
                 QuantidadeRisco)

\* Agente.atualiza_patrimonio: saldo + valor_ativos + valor_fundos
ValorAtivos(a) ==
    SumOver(DOMAIN carteira[a],
            [k \in DOMAIN carteira[a] |-> Get(mercado_ativos, k) * carteira[a][k]])

ValorFundos(a) ==
    SumOver(Fundos \cap DOMAIN carteira[a],
            [k \in Fundos \cap DOMAIN carteira[a] |-> preco_cota[k] * carteira[a][k]])

Patrimonio(a) == saldo[a] + ValorAtivos(a) + ValorFundos(a)

InitMain == InitComum /\ fase = "inflacao"

\* registrar_inflacao and aplicar_inflacao at the top of a round
AplicarInflacao ==
    /\ fase = "inflacao"
    /\ \E fator \in FatoresInflacao :
          /\ mercado_ativos' = [k \in DOMAIN mercado_ativos |->
                                    mercado_ativos[k] * fator]
          /\ preco_cota' = [f \in Fundos |-> preco_cota[f] * fator]
          /\ referencia' = [x \in Instrumentos |-> referencia[x] * fator]
    /\ fase' = "gerar"
    /\ cursor' = Inicio
    /\ op' = [nome |-> "aplicar_inflacao", ativo |-> Nenhum]
    /\ UNCHANGED <<saldo, carteira, ordens_compra, ordens_venda, patrimonio,
                   em_execucao, rodada, prox_id, aceitas, trans, antes>>

\* where the loops of a phase go next; Fim when both loops are done
Fim == [agente |-> 0, laco |-> 0, idx |-> 0]

ProximoNoAgente ==
    IF cursor.idx < Len(Laco(cursor.laco))
    THEN [cursor EXCEPT !.idx = @ + 1]
    ELSE IF cursor.laco = 1
         THEN [cursor EXCEPT !.laco = 2, !.idx = 1]
         ELSE Fim

\* gerar_ordem, then adicionar_ordem, for the agent and the instrument main()
\* is at
GeraNoCursor(sentimento_positivo, preco_expectativa) ==
    LET agente == OrdemAgentes[cursor.agente]
        ativo == AtivoDoCursor
        ordem == GerarOrdem(prox_id + 1, agente, ativo,
                            sentimento_positivo, preco_expectativa)
    IN  /\ Adiciona(ordem)
        /\ op' = [nome |-> "gerar_ordem", ativo |-> ativo,
                  tipo |-> ordem.tipo, preco_limite |-> ordem.preco_limite,
                  quantidade |-> ordem.quantidade, agente |-> agente,
                  preco_mercado |-> PrecoLido(cursor.laco, ativo)]

\* the passes run as soon as one agent has added its orders
AvancaGerarCedo ==
    IF ProximoNoAgente # Fim
    THEN cursor' = ProximoNoAgente /\ fase' = fase
    ELSE cursor' = Inicio /\ fase' = "executar"

\* the loops of gerar_e_adicionar_ordens and of main() over the agents advance
AvancaGerar ==
    IF ProximoNoAgente # Fim
    THEN cursor' = ProximoNoAgente /\ fase' = fase
    ELSE IF cursor.agente < Len(OrdemAgentes)
         THEN cursor' = [Inicio EXCEPT !.agente = cursor.agente + 1]
              /\ fase' = fase
         ELSE cursor' = Inicio /\ fase' = "executar"

\* one turn of a loop of gerar_e_adicionar_ordens(agente, mercado,
\* order_book): gerar_ordem, then adicionar_ordem
GerarEAdicionar ==
    /\ fase = "gerar"
    /\ \E sentimento_positivo \in BOOLEAN, preco_expectativa \in PrecosMain :
          GeraNoCursor(sentimento_positivo, preco_expectativa)
    /\ AvancaGerar
    /\ trans' = <<>>
    /\ antes' = Foto
    /\ UNCHANGED <<saldo, carteira, mercado_ativos, preco_cota, patrimonio,
                   em_execucao, rodada, referencia>>

\* the cursor and the phase once the pass of AtivoDoCursor has returned
PassoSeguinte ==
    IF ProximoNoAgente # Fim
    THEN cursor' = ProximoNoAgente /\ fase' = fase
    ELSE cursor' = Inicio /\ fase' = "patrimonio"

\* executar_ordens_e_atualizar_precos calls order_book.executar_ordens
ExecutarDaRodada ==
    /\ fase = "executar"
    /\ em_execucao = {}
    /\ Comeca(AtivoDoCursor)
    /\ IF TemChaves(AtivoDoCursor)
       THEN UNCHANGED <<cursor, fase>>
       ELSE PassoSeguinte
    /\ UNCHANGED rodada

\* that call returns
RetornoDaRodada ==
    /\ fase = "executar"
    /\ AtivoDoCursor \in em_execucao
    /\ Termina(AtivoDoCursor)
    /\ PassoSeguinte
    /\ UNCHANGED rodada

\* atualizar_patrimonio_agentes, and the round ends (the dividends of day 22
\* lie beyond the rounds explored); num_rodadas bounds the loop of main()
FechaRodada(num_rodadas) ==
    /\ fase = "patrimonio"
    /\ patrimonio' = [a \in Agentes |-> Append(patrimonio[a], Patrimonio(a))]
    /\ rodada' = rodada + 1
    /\ fase' = IF rodada + 1 < num_rodadas THEN "inflacao" ELSE "fim"
    /\ op' = [nome |-> "atualiza_patrimonio", ativo |-> Nenhum]
    /\ UNCHANGED <<saldo, carteira, mercado_ativos, preco_cota, ordens_compra,
                   ordens_venda, em_execucao, cursor, prox_id, aceitas,
                   referencia, trans, antes>>

AtualizarPatrimonio == FechaRodada(MaxRodadas)

NextMain ==
    \/ AplicarInflacao
    \/ GerarEAdicionar
    \/ ExecutarDaRodada
    \/ Iteracao
    \/ RetornoDaRodada
    \/ AtualizarPatrimonio

SpecMain == InitMain /\ [][NextMain]_vars

\* --------------------------------------------- main() over a longer horizon
\* two limit prices, far apart
PrecosLongo == {2, 2 * MaxPrecoLongo}

\* the random draws of gerar_ordem that are followed. The first agent's
\* sentimento is free for a stock and positive for a fund; the other agents
\* buy in the first round and sell afterwards. The price is free for a
\* stock and for the first agent; for a fund the other agents draw the low
\* price.
SentimentosLongo(agente, ativo) ==
    IF agente # OrdemAgentes[1] THEN {rodada = 0}
    ELSE IF ativo \in Fundos THEN {TRUE}
    ELSE BOOLEAN

PrecosLongoDe(agente, ativo) ==
    IF ativo \in Acoes THEN PrecosLongo
    ELSE IF agente = OrdemAgentes[1] THEN PrecosLongo
    ELSE {2}

\* main(): the second agent holds one unit more than the first
InitLongo ==
    /\ saldo = [a \in Agentes |-> SaldoLongo]
    /\ carteira = [a \in Agentes |->
                      [x \in Acoes |-> IF a = OrdemAgentes[1]
                                       THEN MaxCarteira ELSE MaxCarteira + 1]]
    /\ mercado_ativos = [x \in Acoes |-> 2]
    /\ preco_cota = [f \in Fundos |-> 4]
    /\ ordens_compra = <<>>
    /\ ordens_venda = <<>>
    /\ em_execucao = {}
    /\ fase = "inflacao"
    /\ rodada = 0
    /\ cursor = Inicio
    /\ patrimonio = [a \in Agentes |-> <<>>]
    /\ prox_id = 0
    /\ aceitas = <<>>
    /\ referencia = [x \in Instrumentos |-> IF x \in Acoes THEN 2 ELSE 4]
    /\ op = [nome |-> "init", ativo |-> Nenhum]
    /\ trans = <<>>
    /\ antes = Nenhum

GerarEAdicionarLongo ==
    /\ fase = "gerar"
    /\ \E sentimento_positivo \in
             SentimentosLongo(OrdemAgentes[cursor.agente], AtivoDoCursor),
          preco_expectativa \in
             PrecosLongoDe(OrdemAgentes[cursor.agente], AtivoDoCursor) :
          GeraNoCursor(sentimento_positivo, preco_expectativa)
    /\ AvancaGerar
    /\ trans' = <<>>
    /\ antes' = Foto
    /\ UNCHANGED <<saldo, carteira, mercado_ativos, preco_cota, patrimonio,
                   em_execucao, rodada, referencia>>

AtualizarPatrimonioLongo == FechaRodada(MaxRodadasLongo)

NextLongo ==
    \/ AplicarInflacao
    \/ GerarEAdicionarLongo
    \/ ExecutarDaRodada
    \/ Iteracao
    \/ RetornoDaRodada
    \/ AtualizarPatrimonioLongo

SpecLongo == InitLongo /\ [][NextLongo]_vars

\* ------------------------------------------- gerar_ordem as a pure function
\* an agent's carteira: no entry for the stock, or an entry of 0 or more units
CarteirasGerar ==
    {<<>>} \cup {[x \in Acoes |-> n] : n \in 0..MaxPosse}

\* the agents as gerar_ordem may find them: any cash >= 0, any holding
InitGerar ==
    /\ saldo \in [Agentes -> 0..MaxSaldoGerar]
    /\ carteira \in [Agentes -> CarteirasGerar]
    /\ mercado_ativos = [x \in Acoes |-> 2]
    /\ preco_cota = [f \in Fundos |-> 4]
    /\ ordens_compra = <<>>
    /\ ordens_venda = <<>>
    /\ em_execucao = {}
    /\ fase = "gerar_ordem"
    /\ rodada = 0
    /\ cursor = Inicio
    /\ patrimonio = [a \in Agentes |-> <<>>]
    /\ prox_id = 0
    /\ aceitas = <<>>
    /\ referencia = [x \in Instrumentos |-> IF x \in Acoes THEN 2 ELSE 4]
    /\ op = [nome |-> "init", ativo |-> Nenhum]
    /\ trans = <<>>
    /\ antes = Nenhum

\* agente.gerar_ordem(ativo, preco_mercado) returns an order; the agent's cash
\* and holdings are read, never written
ChamaGerarOrdem ==
    /\ fase = "gerar_ordem"
    /\ \E agente \in Agentes, ativo \in Instrumentos,
          sentimento_positivo \in BOOLEAN, preco_expectativa \in PrecosMain,
          volatilidade_percebida \in 0..MaxVolatilidade,
          risco_desejado \in (0 - 1)..MaxRisco :
          LET ordem == GerarOrdemDe(1, agente, ativo, sentimento_positivo,
                           preco_expectativa,
                           QuantidadeDeRisco(volatilidade_percebida,
                                             risco_desejado))
          IN  op' = [nome |-> "gerar_ordem", ativo |-> ativo,
                     tipo |-> ordem.tipo, preco_limite |-> ordem.preco_limite,
                     quantidade |-> ordem.quantidade, agente |-> agente,
                     preco_mercado |-> IF ativo \in Acoes
                                       THEN mercado_ativos[ativo]
                                       ELSE preco_cota[ativo]]
    /\ UNCHANGED <<saldo, carteira, mercado_ativos, preco_cota, ordens_compra,
                   ordens_venda, patrimonio, em_execucao, fase, rodada, cursor,
                   prox_id, aceitas, referencia, trans, antes>>

NextGerar == ChamaGerarOrdem

SpecGerar == InitGerar /\ [][NextGerar]_vars

\* ------------------------------------------------- teste.py: the first variant
\* main(): Mercado(ativos={"PETR4": 50.0, "VALE3": 45.0}), in dict order
AtivosTeste == <<"PETR4", "VALE3">>

\* preco * random.uniform(0.98, 1.02), on the grid of even amounts
PrecosLimiteTeste(preco) ==
    {x \in {preco - 2, preco, preco + 2} :
        50 * (IF x < preco THEN preco - x ELSE x - preco) <= preco}

\* Transacao.executar of teste.py: the seller's entry is decremented without
\* a test and is never deleted
CarteiraAposTeste(c, comprador, vendedor, ativo, quantidade) ==
    LET c1 == [c EXCEPT ![comprador] =
                   Put(@, ativo, Get(@, ativo) + quantidade)]
    IN  [c1 EXCEPT ![vendedor] = Put(@, ativo, @[ativo] - quantidade)]

\* the while loop of executar_ordens of teste.py, run to its end on the
\* state e
RECURSIVE LacoTesteDe(_, _)
LacoTesteDe(e, ativo) ==
    IF e.ordens_compra[ativo] = <<>> \/ e.ordens_venda[ativo] = <<>> THEN e
    ELSE LET ordem_compra == e.ordens_compra[ativo][1]
             ordem_venda == e.ordens_venda[ativo][1]
             preco_execucao == PrecoExecucao(ordem_compra, ordem_venda)
             quantidade_exec == QuantidadeExec(ordem_compra, ordem_venda)
             valor_total == quantidade_exec * preco_execucao
         IN  IF ~Cruza(ordem_compra, ordem_venda) THEN e
             ELSE LacoTesteDe(
                 [e EXCEPT
                    !.saldo = SaldoApos(@, ordem_compra.agente,
                                        ordem_venda.agente, valor_total),
                    !.carteira = CarteiraAposTeste(@, ordem_compra.agente,
                                                   ordem_venda.agente, ativo,
                                                   quantidade_exec),
                    !.mercado_ativos = Put(@, ativo, preco_execucao),
                    !.ordens_compra[ativo] = FilaApos(@, quantidade_exec),
                    !.ordens_venda[ativo] = FilaApos(@, quantidade_exec)],
                 ativo)

\* [o for o in lista if o.quantidade > 0]
SoPositivas(lista) == SelectSeq(lista, LAMBDA o : o.quantidade > 0)

\* executar_ordens(ativo, mercado) of teste.py, from its call to its return
ExecutarOrdensTesteDe(e, ativo) ==
    IF ativo \in DOMAIN e.ordens_compra /\ ativo \in DOMAIN e.ordens_venda
    THEN LET f == LacoTesteDe(
                      [e EXCEPT !.ordens_compra[ativo] = SortCompra(@),
                                !.ordens_venda[ativo] = SortVenda(@)], ativo)
         IN  [f EXCEPT !.ordens_compra[ativo] = SoPositivas(@),
                       !.ordens_venda[ativo] = SoPositivas(@)]
    ELSE e

\* main() of teste.py: the market, an empty OrderBook and the agents, each
\* holding a random number of units of every stock
InitTeste ==
    /\ saldo = [a \in Agentes |-> SaldoInicial]
    /\ carteira \in [Agentes -> [{"PETR4", "VALE3"} -> 0..MaxCarteira]]
    /\ mercado_ativos = [x \in {"PETR4", "VALE3"} |->
                             IF x = "PETR4" THEN 100 ELSE 90]
    /\ preco_cota = <<>>
    /\ ordens_compra = <<>>
    /\ ordens_venda = <<>>
    /\ em_execucao = {}
    /\ rodada = 0
    /\ cursor = Inicio
    /\ patrimonio = [a \in Agentes |-> <<>>]
    /\ prox_id = 0
    /\ aceitas = <<>>
    /\ referencia = [x \in {"PETR4", "VALE3"} |->
                         IF x = "PETR4" THEN 100 ELSE 90]
    /\ op = [nome |-> "init", ativo |-> Nenhum]
    /\ trans = <<>>
    /\ antes = Nenhum
    /\ fase = "decisao"

\* the loops of main() over the agents and of tomar_decisao over the stocks
\* advance
AvancaDecisao ==
    IF cursor.idx < Len(AtivosTeste)
    THEN cursor' = [cursor EXCEPT !.idx = @ + 1] /\ fase' = fase
    ELSE IF cursor.agente < Len(OrdemAgentes)
         THEN cursor' = [Inicio EXCEPT !.agente = cursor.agente + 1]
              /\ fase' = fase
         ELSE cursor' = Inicio /\ fase' = "casar"

\* one turn of the loop of Agente.tomar_decisao(mercado, order_book) of
\* teste.py: the order built in the compra branch is not handed to
\* adicionar_ordem, the one built in the venda branch is
TomarDecisao ==
    /\ fase = "decisao"
    /\ LET agente == OrdemAgentes[cursor.agente]
           ativo == AtivosTeste[cursor.idx]
           preco == mercado_ativos[ativo]
           quantidade_maxima == Get(carteira[agente], ativo)
       IN  \E compra \in BOOLEAN, preco_limite \in PrecosLimiteTeste(preco) :
              IF compra
              THEN \E quantidade \in 1..MaxQtd :
                      /\ op' = [nome |-> "tomar_decisao", ativo |-> ativo,
                                agente |-> agente, construida |-> TRUE,
                                ordem |-> Ordem(prox_id + 1, "compra", agente,
                                                ativo, preco_limite,
                                                quantidade)]
                      /\ UNCHANGED <<ordens_compra, ordens_venda, prox_id,
                                     aceitas>>
              ELSE IF quantidade_maxima > 0
                   THEN \E quantidade \in 1..quantidade_maxima :
                           LET ordem == Ordem(prox_id + 1, "venda", agente,
                                              ativo, preco_limite, quantidade)
                           IN  /\ Adiciona(ordem)
                               /\ op' = [nome |-> "tomar_decisao",
                                         ativo |-> ativo, agente |-> agente,
                                         construida |-> TRUE, ordem |-> ordem]
                   ELSE /\ op' = [nome |-> "tomar_decisao", ativo |-> ativo,
                                  agente |-> agente, construida |-> FALSE,
                                  ordem |-> Nenhum]
                        /\ UNCHANGED <<ordens_compra, ordens_venda, prox_id,
                                       aceitas>>
    /\ AvancaDecisao
    /\ UNCHANGED <<saldo, carteira, mercado_ativos, preco_cota, patrimonio,
                   em_execucao, rodada, referencia, trans, antes>>

\* one turn of the loop of main() over mercado.ativos.keys():
\* order_book.executar_ordens(ativo, mercado); after the last stock the
\* round ends
ExecutarOrdensTeste ==
    /\ fase = "casar"
    /\ LET ativo == AtivosTeste[cursor.idx]
           f == ExecutarOrdensTesteDe(Foto, ativo)
       IN  /\ saldo' = f.saldo
           /\ carteira' = f.carteira
           /\ mercado_ativos' = f.mercado_ativos
           /\ ordens_compra' = f.ordens_compra
           /\ ordens_venda' = f.ordens_venda
           /\ op' = [nome |-> "executar_ordens", ativo |-> ativo,
                     repetida |-> FALSE]
           /\ antes' = Foto
    /\ IF cursor.idx < Len(AtivosTeste)
       THEN /\ cursor' = [cursor EXCEPT !.idx = @ + 1]
            /\ UNCHANGED <<fase, rodada>>
       ELSE /\ cursor' = Inicio
            /\ rodada' = rodada + 1
            /\ fase' = IF rodada + 1 < MaxRodadas THEN "decisao" ELSE "fim"
    /\ UNCHANGED <<preco_cota, patrimonio, em_execucao, prox_id, aceitas,
                   referencia, trans>>

NextTeste == TomarDecisao \/ ExecutarOrdensTeste

SpecTeste == InitTeste /\ [][NextTeste]_vars

\* ------------------------------------ executar_ordens as a function of state
\* the while loop of executar_ordens(ativo, mercado), run to its end on the
\* state e
RECURSIVE LacoDe(_, _)
LacoDe(e, ativo) ==
    IF e.ordens_compra[ativo] = <<>> \/ e.ordens_venda[ativo] = <<>> THEN e
    ELSE LET ordem_compra == e.ordens_compra[ativo][1]
             ordem_venda == e.ordens_venda[ativo][1]
             preco_execucao == PrecoExecucao(ordem_compra, ordem_venda)
             quantidade_exec == QuantidadeExec(ordem_compra, ordem_venda)
             valor_total == quantidade_exec * preco_execucao
         IN  IF ~Cruza(ordem_compra, ordem_venda) THEN e
             ELSE LacoDe(
                 [e EXCEPT
                    !.saldo = SaldoApos(@, ordem_compra.agente,
                                        ordem_venda.agente, valor_total),
                    !.carteira = CarteiraApos(@, ordem_compra.agente,
                                              ordem_venda.agente, ativo,
                                              quantidade_exec),
                    !.mercado_ativos = Put(@, ativo, preco_execucao),
                    !.ordens_compra[ativo] = FilaApos(@, quantidade_exec),
                    !.ordens_venda[ativo] = FilaApos(@, quantidade_exec)],
                 ativo)

\* executar_ordens(ativo, mercado), from its call to its return, on the state e
ExecutarOrdensDe(e, ativo) ==
    IF ativo \in DOMAIN e.ordens_compra /\ ativo \in DOMAIN e.ordens_venda
    THEN LacoDe([e EXCEPT !.ordens_compra[ativo] = SortCompra(@),
                          !.ordens_venda[ativo] = SortVenda(@)], ativo)
    ELSE e

\* ------------------------------- passes of two instruments running together
MaxOrdensJuntos == 4 \* orders accepted by adicionar_ordem in one behaviour

\* one limit price, so that every buy order crosses every sell order
PrecosJuntos == {2 * MaxPreco}

\* order_book.adicionar_ordem(ordem) with a well-formed order
AdicionarOrdemJuntos ==
    /\ fase = "api"
    /\ em_execucao = {}
    /\ prox_id < MaxOrdensJuntos
    /\ \E tipo \in {"compra", "venda"}, agente \in Agentes,
          ativo \in Instrumentos, preco \in PrecosJuntos,
          quantidade \in 1..MaxQtd :
          /\ Adiciona(Ordem(prox_id + 1, tipo, agente, ativo, preco, quantidade))
          /\ op' = [nome |-> "adicionar_ordem", ativo |-> ativo, tipo |-> tipo,
                    preco_limite |-> preco, quantidade |-> quantidade]
    /\ trans' = <<>>
    /\ antes' = Foto
    /\ UNCHANGED <<saldo, carteira, mercado_ativos, preco_cota, patrimonio,
                   em_execucao, fase, rodada, cursor, referencia>>

\* the guard and the two sorts of executar_ordens(ativo, mercado)
Ordena(ativo) ==
    IF TemChaves(ativo)
    THEN /\ ordens_compra' = [ordens_compra EXCEPT ![ativo] = SortCompra(@)]
         /\ ordens_venda' = [ordens_venda EXCEPT ![ativo] = SortVenda(@)]
         /\ em_execucao' = em_execucao \cup {ativo}
    ELSE UNCHANGED <<ordens_compra, ordens_venda, em_execucao>>

\* the passes of all instruments are to be run, each once, in any order and
\* interleaved: the pass of one of them is called
ExecutarPrimeiro ==
    /\ fase = "api"
    /\ em_execucao = {}
    /\ op.nome = "juntos" => op.chamados = Instrumentos
    /\ \E ativo \in Instrumentos :
          /\ Ordena(ativo)
          /\ op' = [nome |-> "juntos", ativo |-> ativo, chamados |-> {ativo}]
    /\ trans' = <<>>
    /\ antes' = Foto
    /\ UNCHANGED <<saldo, carteira, mercado_ativos, preco_cota, patrimonio,
                   prox_id, aceitas, referencia, fase, rodada, cursor>>

\* the pass of another instrument is called, before or after the passes
\* called earlier have returned
ExecutarOutro ==
    /\ fase = "api"
    /\ op.nome = "juntos"
    /\ \E ativo \in Instrumentos \ op.chamados :
          /\ Ordena(ativo)
          /\ op' = [op EXCEPT !.ativo = ativo, !.chamados = @ \cup {ativo}]
    /\ UNCHANGED <<saldo, carteira, mercado_ativos, preco_cota, patrimonio,
                   prox_id, aceitas, referencia, trans, antes, fase, rodada,
                   cursor>>

NextJuntos ==
    \/ AdicionarOrdemJuntos
    \/ ExecutarPrimeiro
    \/ ExecutarOutro
    \/ Iteracao
    \/ Retorno

SpecJuntos == Init /\ [][NextJuntos]_vars

\* ================================================================== claims
Ultima == trans[Len(trans)]

TotalSaldo == SumOver(Agentes, saldo)

TotalUnidades(x) == SumOver(Agentes, [a \in Agentes |-> Get(carteira[a], x)])

\* C1: cash is conserved. The last transaction took quantidade *
\* preco_execucao from its buyer and gave the same amount to its seller, and
\* the agents' cash always adds up to what they started with.
C1_CashConservation ==
    /\ TotalSaldo = Cardinality(Agentes) * SaldoInicial
    /\ trans # <<>> =>
          LET valor == Ultima.quantidade * Ultima.preco_execucao
          IN  \A a \in Agentes :
                 saldo[a] = Ultima.saldo_antes[a]
                            - (IF a = Ultima.comprador THEN valor ELSE 0)
                            + (IF a = Ultima.vendedor THEN valor ELSE 0)

\* a transaction of a positive quantity at a positive price between two
\* different agents has been settled
C1_Witness ==
    /\ trans # <<>>
    /\ Ultima.quantidade > 0
    /\ Ultima.preco_execucao > 0
    /\ Ultima.comprador # Ultima.vendedor
    /\ saldo[Ultima.comprador] < SaldoInicial

\* C2: holdings are conserved. For every instrument the units held by all
\* agents together, a missing entry counting as 0, are what they were at the
\* start.
C2_HoldingsConservation ==
    \A x \in Instrumentos :
       TotalUnidades(x) =
           IF x \in Acoes THEN Cardinality(Agentes) * MaxCarteira ELSE 0

\* the orders of a list, as a set
Elems(fila) == {fila[i] : i \in 1..Len(fila)}

\* C3: time priority. Whenever an order was filled, no order resident on its
\* side of the instrument at the same limit price had arrived before it.
C3_TimePriority ==
    \A i \in 1..Len(trans) :
       /\ \A o \in Elems(trans[i].fila_compra) :
             o.preco_limite = trans[i].compra.preco_limite
                 => o.id >= trans[i].compra.id
       /\ \A o \in Elems(trans[i].fila_venda) :
             o.preco_limite = trans[i].venda.preco_limite
                 => o.id >= trans[i].venda.id

\* the first fill of a pass went to the remainder of a buy order that an
\* earlier pass had filled in part, ahead of a later buy order at its price
C3_Witness ==
    /\ trans # <<>>
    /\ trans[1].compra.quantidade
           < aceitas[trans[1].compra.id].ordem.quantidade
    /\ \E o \in Elems(trans[1].fila_compra) :
          /\ o.id > trans[1].compra.id
          /\ o.preco_limite = trans[1].compra.preco_limite

\* C4: price priority. Whenever a buy order traded, no buy order of the
\* instrument with a strictly higher limit was resident with unfilled
\* quantity; whenever a sell order traded, no sell order with a strictly lower
\* limit was.
C4_PricePriority ==
    \A i \in 1..Len(trans) :
       /\ \A o \in Elems(trans[i].fila_compra) :
             o.quantidade > 0
                 => o.preco_limite <= trans[i].compra.preco_limite
       /\ \A o \in Elems(trans[i].fila_venda) :
             o.quantidade > 0
                 => o.preco_limite >= trans[i].venda.preco_limite

\* a buy order traded ahead of a buy order that had arrived before it at a
\* lower limit and was still unfilled
C4_Witness ==
    \E i \in 1..Len(trans) :
       \E o \in Elems(trans[i].fila_compra) :
          /\ o.id < trans[i].compra.id
          /\ o.quantidade > 0
          /\ trans[i].quantidade > 0
          /\ o.preco_limite < trans[i].compra.preco_limite

\* the pass that ran last has returned
PassoCompleto == op.nome = "executar_ordens" /\ em_execucao = {}

\* when that pass was called both sides of its instrument had orders and the
\* highest buy limit was strictly below the lowest sell limit
NaoCruzava ==
    /\ op.ativo \in DOMAIN antes.ordens_compra
    /\ op.ativo \in DOMAIN antes.ordens_venda
    /\ antes.ordens_compra[op.ativo] # <<>>
    /\ antes.ordens_venda[op.ativo] # <<>>
    /\ \A b \in Elems(antes.ordens_compra[op.ativo]),
          v \in Elems(antes.ordens_venda[op.ativo]) :
          b.preco_limite < v.preco_limite

SemEfeitoNosAgentes ==
    /\ trans = <<>>
    /\ saldo = antes.saldo
    /\ carteira = antes.carteira
    /\ mercado_ativos = antes.mercado_ativos
    /\ preco_cota = antes.preco_cota

\* two dicts of lists hold the same orders, each with the same quantity
MesmasOrdens(d, e) ==
    /\ DOMAIN d = DOMAIN e
    /\ \A x \in DOMAIN d : Len(d[x]) = Len(e[x]) /\ Elems(d[x]) = Elems(e[x])

\* C5 as stated: a pass over a book that does not cross executes nothing and
\* leaves both collections, the agents and the prices as they were.
C5_NoCrossingUnchanged ==
    (PassoCompleto /\ NaoCruzava) =>
        /\ SemEfeitoNosAgentes
        /\ ordens_compra = antes.ordens_compra
        /\ ordens_venda = antes.ordens_venda

\* C5, amended: such a pass executes nothing and leaves the agents, the
\* prices and the orders resident on each side, with their quantities, as they
\* were; the lists of the other instruments are untouched, those of the
\* instrument may come back in another order.
C5_NoCrossing ==
    (PassoCompleto /\ NaoCruzava) =>
        /\ SemEfeitoNosAgentes
        /\ MesmasOrdens(ordens_compra, antes.ordens_compra)
        /\ MesmasOrdens(ordens_venda, antes.ordens_venda)
        /\ \A x \in DOMAIN ordens_compra \ {op.ativo} :
              ordens_compra[x] = antes.ordens_compra[x]
        /\ \A x \in DOMAIN ordens_venda \ {op.ativo} :
              ordens_venda[x] = antes.ordens_venda[x]

\* a pass over a book of two or more buy orders that did not cross has
\* returned, and the buy list is not in the order it had
C5_Witness ==
    /\ PassoCompleto
    /\ NaoCruzava
    /\ Len(antes.ordens_compra[op.ativo]) >= 2
    /\ ordens_compra # antes.ordens_compra

Abs(x) == IF x < 0 THEN 0 - x ELSE x

Resto(ordem, quantidade) == [ordem EXCEPT !.quantidade = quantidade]

\* C6: partial fill. The last transaction was of min(qb, qs); the order with
\* the smaller quantity has left its list, the other heads its list with
\* |qb - qs|, and with qb = qs both have left; no pair of orders traded twice.
C6_PartialFill ==
    /\ trans # <<>> =>
          LET qb == Ultima.compra.quantidade
              qs == Ultima.venda.quantidade
              a == Ultima.ativo
          IN  /\ Ultima.quantidade = Min(qb, qs)
              /\ qb < qs =>
                    /\ ordens_compra[a] = Tail(Ultima.fila_compra)
                    /\ ordens_venda[a] =
                           <<Resto(Ultima.venda, Abs(qb - qs))>>
                               \o Tail(Ultima.fila_venda)
              /\ qb > qs =>
                    /\ ordens_venda[a] = Tail(Ultima.fila_venda)
                    /\ ordens_compra[a] =
                           <<Resto(Ultima.compra, Abs(qb - qs))>>
                               \o Tail(Ultima.fila_compra)
              /\ qb = qs =>
                    /\ ordens_compra[a] = Tail(Ultima.fila_compra)
                    /\ ordens_venda[a] = Tail(Ultima.fila_venda)
    /\ \A i, j \in 1..Len(trans) :
          (trans[i].compra.id = trans[j].compra.id
              /\ trans[i].venda.id = trans[j].venda.id) => i = j

\* a buy for more than the sell offered was filled in part and heads the buy
\* list with the rest
C6_Witness ==
    /\ trans # <<>>
    /\ Ultima.venda.quantidade > 0
    /\ Ultima.compra.quantidade > Ultima.venda.quantidade
    /\ ordens_compra[Ultima.ativo] # <<>>
    /\ Head(ordens_compra[Ultima.ativo]).id = Ultima.compra.id
    /\ Head(ordens_compra[Ultima.ativo]).quantidade
           = Ultima.compra.quantidade - Ultima.venda.quantidade

\* C7: execution price. Every transaction is priced at half the sum of the
\* two limits, so not above the buyer's limit and not below the seller's.
C7_ExecutionPrice ==
    \A i \in 1..Len(trans) :
       /\ 2 * trans[i].preco_execucao
              = trans[i].compra.preco_limite + trans[i].venda.preco_limite
       /\ trans[i].preco_execucao <= trans[i].compra.preco_limite
       /\ trans[i].preco_execucao >= trans[i].venda.preco_limite

\* a transaction was priced strictly between two different limits
C7_Witness ==
    \E i \in 1..Len(trans) :
       /\ trans[i].compra.preco_limite > trans[i].venda.preco_limite
       /\ trans[i].preco_execucao < trans[i].compra.preco_limite
       /\ trans[i].preco_execucao > trans[i].venda.preco_limite

\* C8: reference price. The price an agent is handed for an instrument when
\* it generates an order is the instrument's last execution price, or its
\* opening price when it has not traded.
C8_ReferencePrice ==
    op.nome = "gerar_ordem" => op.preco_mercado = referencia[op.ativo]

\* C9: malformed orders are rejected. After adicionar_ordem with a quantity
\* <= 0 or a limit price <= 0 the book holds what it held before.
C9_MalformedRejected ==
    (op.nome = "adicionar_ordem" /\ (op.quantidade <= 0 \/ op.preco_limite <= 0))
        => /\ ordens_compra = antes.ordens_compra
           /\ ordens_venda = antes.ordens_venda

\* C10: between operations every resident order has quantity > 0.
C10_ResidentPositive ==
    em_execucao = {} =>
        /\ \A x \in DOMAIN ordens_compra :
              \A o \in Elems(ordens_compra[x]) : o.quantidade > 0
        /\ \A x \in DOMAIN ordens_venda :
              \A o \in Elems(ordens_venda[x]) : o.quantidade > 0

\* C11: a venda returned by gerar_ordem never exceeds the agent's holding of
\* the instrument at that moment.
C11_SellWithinHoldings ==
    (op.nome = "gerar_ordem" /\ op.tipo = "venda")
        => op.quantidade <= Get(carteira[op.agente], op.ativo)

\* a venda of fewer units than the agent holds, and of more than none
C11_Witness ==
    /\ op.nome = "gerar_ordem"
    /\ op.tipo = "venda"
    /\ op.quantidade >= 1
    /\ op.quantidade < Get(carteira[op.agente], op.ativo)

\* C12: a compra returned by gerar_ordem costs, at its limit price, no more
\* than the agent's cash at that moment.
C12_BuyAffordable ==
    (op.nome = "gerar_ordem" /\ op.tipo = "compra")
        => op.quantidade * op.preco_limite <= saldo[op.agente]

\* a compra of one unit or more whose quantity the cash limited, and a
\* second unit would not have been affordable
C12_Witness ==
    /\ op.nome = "gerar_ordem"
    /\ op.tipo = "compra"
    /\ op.quantidade >= 1
    /\ op.quantidade * op.preco_limite < saldo[op.agente]
    /\ (op.quantidade + 1) * op.preco_limite > saldo[op.agente]

\* C13: every order returned by gerar_ordem has quantidade >= 1.
C13_QuantityAtLeastOne ==
    op.nome = "gerar_ordem" => op.quantidade >= 1

\* C14: every agent's holding of every instrument is >= 0.
C14_NonNegativeHoldings ==
    \A a \in Agentes : \A x \in DOMAIN carteira[a] : carteira[a][x] >= 0

\* C15: after each settled transaction every agent's cash is >= 0.
C15_NonNegativeCash ==
    \A a \in Agentes : saldo[a] >= 0

\* C16: in every round each agent submits at most one order per instrument.
C16_OneOrderPerInstrument ==
    \A i, j \in 1..Len(aceitas) :
       (/\ aceitas[i].rodada = aceitas[j].rodada
        /\ aceitas[i].ordem.agente = aceitas[j].ordem.agente
        /\ aceitas[i].ordem.ativo = aceitas[j].ordem.ativo) => i = j

\* C17: when the order collection of a round starts, the book holds no order
\* of an earlier round.
C17_BookEmptyAtRoundStart ==
    (fase = "gerar" /\ cursor = Inicio) =>
        /\ \A x \in DOMAIN ordens_compra : ordens_compra[x] = <<>>
        /\ \A x \in DOMAIN ordens_venda : ordens_venda[x] = <<>>

\* the value of an agent: its cash plus, for each instrument it holds, the
\* units held times the instrument's reference price, each counted once
ValorDeReferencia(a) ==
    saldo[a] + SumOver(DOMAIN carteira[a],
                       [k \in DOMAIN carteira[a] |-> referencia[k] * carteira[a][k]])

\* C18: the value an agent records at the end of a round is its cash plus
\* its holdings at their reference prices, each holding counted once.
C18_PostRoundValuation ==
    op.nome = "atualiza_patrimonio" =>
        \A a \in Agentes :
           patrimonio[a][Len(patrimonio[a])] = ValorDeReferencia(a)

\* C19: a pass called right after a pass of the same instrument, with no
\* submission in between, executes nothing and leaves the book, the agents
\* and the prices as the first pass left them.
C19_ClearIdempotent ==
    (op.nome = "executar_ordens" /\ op.repetida) =>
        /\ SemEfeitoNosAgentes
        /\ ordens_compra = antes.ordens_compra
        /\ ordens_venda = antes.ordens_venda

\* the second of two passes in a row has returned; an order of the instrument
\* had been filled, and orders are left on both sides
C19_Witness ==
    /\ PassoCompleto
    /\ op.repetida
    /\ TemChaves(op.ativo)
    /\ Len(ordens_compra[op.ativo]) >= 2
    /\ Len(ordens_venda[op.ativo]) >= 1
    /\ \E i \in 1..Len(aceitas) :
          aceitas[i].ordem.ativo = op.ativo /\ aceitas[i].preenchido > 0

\* the list of an instrument in a dict of lists, empty when it has no key
FilaDe(d, k) == IF k \in DOMAIN d THEN d[k] ELSE <<>>

\* d holds what e held and, at the tail of the list of op.ativo, one more
\* order with the fields adicionar_ordem was called with
UmaOrdemAMais(d, e) ==
    /\ DOMAIN d = DOMAIN e \cup {op.ativo}
    /\ \A x \in DOMAIN d \ {op.ativo} : d[x] = e[x]
    /\ Len(d[op.ativo]) = Len(FilaDe(e, op.ativo)) + 1
    /\ SubSeq(d[op.ativo], 1, Len(d[op.ativo]) - 1) = FilaDe(e, op.ativo)
    /\ LET nova == d[op.ativo][Len(d[op.ativo])]
       IN  /\ nova.tipo = op.tipo
           /\ nova.ativo = op.ativo
           /\ nova.preco_limite = op.preco_limite
           /\ nova.quantidade = op.quantidade

\* C20: adicionar_ordem of a compra (a venda) appends the order at the tail of
\* the buy (sell) list of its instrument and changes nothing else.
C20_SubmissionFrame ==
    (op.nome = "adicionar_ordem" /\ op.tipo \in {"compra", "venda"}) =>
        /\ IF op.tipo = "compra"
           THEN /\ UmaOrdemAMais(ordens_compra, antes.ordens_compra)
                /\ ordens_venda = antes.ordens_venda
           ELSE /\ UmaOrdemAMais(ordens_venda, antes.ordens_venda)
                /\ ordens_compra = antes.ordens_compra
        /\ saldo = antes.saldo
        /\ carteira = antes.carteira
        /\ mercado_ativos = antes.mercado_ativos
        /\ preco_cota = antes.preco_cota

\* an order has been added to a list that held an order already, while the
\* other side and another instrument had orders too
C20_Witness ==
    /\ op.nome = "adicionar_ordem"
    /\ op.tipo = "compra"
    /\ Len(ordens_compra[op.ativo]) >= 2
    /\ ordens_venda # <<>>

\* C21: adicionar_ordem of an order whose tipo is neither "compra" nor "venda"
\* completes and leaves both dicts of lists as they were; with a recognised
\* tipo the order is resident, at the tail of the list of its side.
C21_UnknownTipoNoOp ==
    op.nome = "adicionar_ordem" =>
        IF op.tipo \in {"compra", "venda"}
        THEN IF op.tipo = "compra"
             THEN UmaOrdemAMais(ordens_compra, antes.ordens_compra)
             ELSE UmaOrdemAMais(ordens_venda, antes.ordens_venda)
        ELSE /\ ordens_compra = antes.ordens_compra
             /\ ordens_venda = antes.ordens_venda
             /\ prox_id = Len(aceitas)

\* adicionar_ordem was called with an unrecognised tipo on a book that holds
\* orders on both sides
C21_Witness ==
    /\ op.nome = "adicionar_ordem"
    /\ op.tipo = "outro"
    /\ ordens_compra # <<>>
    /\ ordens_venda # <<>>

\* C22: every transaction executar_ordens builds from orders that gerar_ordem
\* produced has a quantity of at least 1 and of at most the remaining
\* quantity of each of its two orders.
C22_ExecutedQuantity ==
    \A i \in 1..Len(trans) :
        /\ trans[i].quantidade >= 1
        /\ trans[i].quantidade <= trans[i].compra.quantidade
        /\ trans[i].quantidade <= trans[i].venda.quantidade

\* the instruments other than the one the last executar_ordens was called for
Outros == Instrumentos \ {op.ativo}

\* the agents that are a party to a transaction of the pass
Partes == {trans[i].comprador : i \in 1..Len(trans)} \cup
          {trans[i].vendedor : i \in 1..Len(trans)}

\* C25: executar_ordens(X) leaves the buy and sell lists, the price and
\* every agent's holding of each instrument other than X as they were, and
\* the cash and the holdings of the agents that are no party to one of its
\* transactions as well; preco_cota is never written.
C25_InstrumentIndependence ==
    (op.nome = "executar_ordens" /\ fase = "api") =>
        /\ \A x \in Outros :
              /\ (x \in DOMAIN ordens_compra) = (x \in DOMAIN antes.ordens_compra)
              /\ (x \in DOMAIN ordens_venda) = (x \in DOMAIN antes.ordens_venda)
              /\ FilaDe(ordens_compra, x) = FilaDe(antes.ordens_compra, x)
              /\ FilaDe(ordens_venda, x) = FilaDe(antes.ordens_venda, x)
              /\ (x \in DOMAIN mercado_ativos) = (x \in DOMAIN antes.mercado_ativos)
              /\ Get(mercado_ativos, x) = Get(antes.mercado_ativos, x)
              /\ \A a \in Agentes :
                    /\ (x \in DOMAIN carteira[a]) = (x \in DOMAIN antes.carteira[a])
                    /\ Get(carteira[a], x) = Get(antes.carteira[a], x)
        /\ preco_cota = antes.preco_cota
        /\ \A a \in Agentes \ Partes :
              saldo[a] = antes.saldo[a] /\ carteira[a] = antes.carteira[a]

\* a pass has executed a transaction while another instrument had resident
\* orders and an agent was no party to the pass
C25_Witness ==
    /\ PassoCompleto
    /\ fase = "api"
    /\ trans # <<>>
    /\ Agentes \ Partes # {}
    /\ \E x \in Outros : FilaDe(ordens_compra, x) # <<>>

\* C28: when executar_ordens(X) has returned, X has no resident buy order, or
\* no resident sell order, or every resident buy limit is strictly below
\* every resident sell limit.
C28_UncrossedAfterClear ==
    PassoCompleto =>
        LET compras == FilaDe(ordens_compra, op.ativo)
            vendas == FilaDe(ordens_venda, op.ativo)
        IN  \/ compras = <<>>
            \/ vendas = <<>>
            \/ \A i \in 1..Len(compras), j \in 1..Len(vendas) :
                   compras[i].preco_limite < vendas[j].preco_limite

\* a pass that executed a transaction has returned and left orders resident
\* on both sides
C28_Witness ==
    /\ PassoCompleto
    /\ trans # <<>>
    /\ FilaDe(ordens_compra, op.ativo) # <<>>
    /\ FilaDe(ordens_venda, op.ativo) # <<>>

\* the resident orders that are the i-th order the book accepted
Residentes(i) ==
    LET x == aceitas[i].ordem.ativo
    IN  {o \in Elems(FilaDe(ordens_compra, x)) \cup Elems(FilaDe(ordens_venda, x)) :
            o.id = i}

\* C30: for an order submitted with a quantity q >= 1, the quantities of the
\* transactions it took part in never add up to more than q, what remains of
\* it is q minus that sum and is not negative, and it leaves the book only
\* when nothing remains.
C30_FillBound ==
    \A i \in 1..Len(aceitas) :
        LET q == aceitas[i].ordem.quantidade
            soma == aceitas[i].preenchido
        IN  q >= 1 =>
                /\ soma <= q
                /\ \A o \in Residentes(i) :
                       o.quantidade = q - soma /\ o.quantidade >= 0
                /\ Residentes(i) = {} => soma = q

\* an order of two units has been filled in part and is still resident
C30_Witness ==
    \E i \in 1..Len(aceitas) :
        /\ aceitas[i].ordem.quantidade = MaxQtd
        /\ aceitas[i].preenchido = 1
        /\ Residentes(i) # {}

\* C29: in a run of main(), no transaction executar_ordens executes has the
\* same agent as its buyer and as its seller.
C29_NoSelfTrade ==
    \A i \in 1..Len(trans) : trans[i].comprador # trans[i].vendedor

\* ------------------------------------------------------------- termination
\* executar_ordens is sequential code: once its loop is entered, the next
\* iteration or the exit of the loop is taken.
MaxOrdensJusto == 3 \* orders accepted by adicionar_ordem in one behaviour

\* order_book.adicionar_ordem(ordem) with an order of a stock whose quantity
\* may be zero or negative
AdicionarOrdemJusto ==
    /\ fase = "livro"
    /\ em_execucao = {}
    /\ prox_id < MaxOrdensJusto
    /\ \E tipo \in {"compra", "venda"}, agente \in Agentes, ativo \in Acoes,
          preco \in PrecosAPI, quantidade \in QuantidadesAPI :
          /\ Adiciona(Ordem(prox_id + 1, tipo, agente, ativo, preco, quantidade))
          /\ op' = [nome |-> "adicionar_ordem", ativo |-> ativo, tipo |-> tipo,
                    preco_limite |-> preco, quantidade |-> quantidade]
    /\ trans' = <<>>
    /\ antes' = Foto
    /\ UNCHANGED <<saldo, carteira, mercado_ativos, preco_cota, patrimonio,
                   em_execucao, fase, rodada, cursor, referencia>>

NextJusto == AdicionarOrdemJusto \/ ExecutarOrdens \/ Iteracao \/ Retorno

SpecJusto ==
    InitLivro /\ [][NextJusto]_vars /\ WF_vars(Iteracao) /\ WF_vars(Retorno)

\* the number of orders resident for an instrument
Residem(compras, vendas, x) == Len(FilaDe(compras, x)) + Len(FilaDe(vendas, x))

\* C23: whatever the book holds, orders of quantity zero or below included,
\* executar_ordens terminates: an iteration of its loop that does not stop
\* the loop removes at least one order from the book, and when the loop has
\* been left a list is empty or the heads of the two lists do not cross.
C23_Termination ==
    /\ [][(em_execucao # {} /\ em_execucao' # {}) =>
              Residem(ordens_compra', ordens_venda', op.ativo)
                  < Residem(ordens_compra, ordens_venda, op.ativo)]_vars
    /\ []((PassoCompleto /\ TemChaves(op.ativo)) =>
              \/ ~AmbosNaoVazios(op.ativo)
              \/ ~Cruza(ordens_compra[op.ativo][1], ordens_venda[op.ativo][1]))
    /\ ((em_execucao # {}) ~> (em_execucao = {}))

\* a pass has made two iterations, the first of them with an order of
\* quantity zero or below, and has returned
C23_Witness ==
    /\ PassoCompleto
    /\ Len(trans) >= 2
    /\ trans[1].quantidade <= 0

\* the agent and the instrument of the last gerar_e_adicionar_ordens turn of
\* a round
UltimoAgente == OrdemAgentes[Len(OrdemAgentes)]
UltimoFundo == OrdemFundos[Len(OrdemFundos)]

\* C24: in every round of main(), an order is added only while no
\* executar_ordens pass of the round has run, the first pass runs only when
\* the last agent has added its last order, and the agents' valuations are
\* recorded only when the pass of the last instrument has returned.
C24_RoundOrdering ==
    [][/\ Len(aceitas') > Len(aceitas) =>
              op.nome \in {"aplicar_inflacao", "gerar_ordem"}
       /\ op'.nome = "aplicar_inflacao" =>
              op.nome \in {"init", "atualiza_patrimonio"}
       /\ op'.nome = "executar_ordens" =>
              \/ op.nome = "executar_ordens"
              \/ /\ op.nome = "gerar_ordem"
                 /\ op.agente = UltimoAgente
                 /\ op.ativo = UltimoFundo
       /\ patrimonio' # patrimonio =>
              /\ op.nome = "executar_ordens"
              /\ op.ativo = UltimoFundo
              /\ em_execucao = {}]_vars

\* the second round has ended, and an order added in it was executed in it
C24_Witness ==
    /\ op.nome = "atualiza_patrimonio"
    /\ rodada = MaxRodadas
    /\ \E i \in 1..Len(aceitas) :
          aceitas[i].rodada = 1 /\ aceitas[i].preenchido > 0

\* C26: the passes of two distinct instruments commute. Run one after the
\* other in either order, or interleaved transaction by transaction, they
\* leave the same book, cash, holdings and prices.
C26_PassesCommute ==
    (op.nome = "juntos" /\ op.chamados = Instrumentos /\ em_execucao = {}) =>
        \A x \in Instrumentos : \A y \in Instrumentos \ {x} :
            Foto = ExecutarOrdensDe(ExecutarOrdensDe(antes, x), y)

\* the passes of two instruments have both executed a transaction, an agent
\* being the buyer of one and the seller of the other, and the pass that was
\* called last executed its transaction first
C26_Witness ==
    /\ op.nome = "juntos"
    /\ op.chamados = Instrumentos
    /\ em_execucao = {}
    /\ Len(trans) = 2
    /\ trans[1].ativo = op.ativo
    /\ trans[2].ativo # op.ativo
    /\ trans[1].comprador = trans[2].vendedor
    /\ trans[1].comprador # trans[1].vendedor

\* C27: every order an agent builds while it takes its decision, compra or
\* venda, is resident in the book when tomar_decisao moves on, hence before
\* the matching of the round runs.
C27_ConstructedOrdersAdded ==
    (op.nome = "tomar_decisao" /\ op.construida) =>
        op.ordem \in Elems(FilaDe(IF op.ordem.tipo = "compra"
                                  THEN ordens_compra ELSE ordens_venda,
                                  op.ativo))

====
